---- MODULE Spec2Model ----
(***************************************************************************)
(* Model of the documentation build driver of                              *)
(* .github/scripts/generate_docs.py: main() and the per-file pipeline it   *)
(* drives, over a sequence of runs on one source tree and one doc root.    *)
(***************************************************************************)
EXTENDS Integers, Sequences, FiniteSets, TLC

\* Number of consecutive runs of the script that are explored.
MaxRuns == 2

\* Number of failures of the environment (a tool exiting non-zero, a file
\* operation raising) that are explored over all the runs together.
MaxFaults == 2

(***************************************************************************)
(* The source tree.  Candidate files are listed in the order sorted()      *)
(* gives their paths; a tree is the set of candidates that exist.          *)
(***************************************************************************)
Candidates ==
  << [dir |-> "root",        name |-> "Makefile",  suffix |-> ""],
     [dir |-> "postProcess", name |-> "notes.dat", suffix |-> ".dat"],
     [dir |-> "postProcess", name |-> "video.py",  suffix |-> ".py"],
     [dir |-> "src-local",   name |-> "two.h",     suffix |-> ".h"] >>

FileIds == 1..Len(Candidates)

SOURCE_DIRS == <<"src-local", "simulationCases", "postProcess">>

SourceDirSet == {SOURCE_DIRS[i] : i \in 1..Len(SOURCE_DIRS)}

valid_exts == {".c", ".h", ".py", ".sh", ".ipynb"}

valid_names == {"Makefile"}

\* find_source_files: the test that admits a file of a scanned directory.
Accepted(f) ==
  \/ Candidates[f].name \in valid_names
  \/ Candidates[f].suffix \in valid_exts

RECURSIVE SortedSeq(_)
\* sorted(files): the members of S in path order.
SortedSeq(S) ==
  IF S = {} THEN << >>
  ELSE LET m == CHOOSE x \in S : \A y \in S : x <= y
       IN  << m >> \o SortedSeq(S \ {m})

\* A scan that collects the files in a list, so that a file met twice is
\* listed twice.
find_source_files_Twice(t) ==
  SortedSeq({f \in t : Accepted(f)}) \o SortedSeq({f \in t : Accepted(f)})

find_source_files(t) == SortedSeq({f \in t : Accepted(f)})

(***************************************************************************)
(* File contents.  A generated file is described by the last pipeline      *)
(* stage that wrote it and by the run that wrote it, so that any rewrite   *)
(* of a file is visible as a change of content, and by whether it holds    *)
(* a doctype declaration and an html root element (valid).                 *)
(***************************************************************************)
Absent == [stage |-> "absent", run |-> 0, valid |-> FALSE]

\* run_pandoc: the renderer's output once the structure check has passed or
\* has wrapped it in the HTML scaffold.
Rendered(r) == [stage |-> "rendered", run |-> r, valid |-> TRUE]

\* run_pandoc: the renderer's output without doctype or html element, left
\* as it is because the structure check raised and the error was only
\* reported.
Unverified(r) == [stage |-> "rendered", run |-> r, valid |-> FALSE]

\* The post-processing passes and insert_javascript_in_html rewrite the page
\* d; they keep the doctype and the html element it has and add none.
PostProcessed(d, r) == [stage |-> "complete", run |-> r, valid |-> d.valid]

Complete(r) == PostProcessed(Rendered(r), r)

\* Outcomes of the external tools for one file: all succeed; reading the
\* source raises; the renderer exits non-zero; the renderer succeeds with an
\* output without doctype and the structure check raises; the anchor-tagging
\* tool exits non-zero; the script of the anchor-tagging tool is missing.
Outcomes == {"ok", "prep_raise", "pandoc_fail", "verify_raise", "awk_fail",
             "awk_missing"}

\* process_file_with_page2html_logic: the files post-processed by the
\* python/shell passes; every other file takes the awk branch.
NonNativeBranch(f) == Candidates[f].suffix \in {".py", ".sh", ".md", ".ipynb"}

OutcomesFor(f) ==
  IF NonNativeBranch(f) THEN Outcomes \ {"awk_fail", "awk_missing"} ELSE Outcomes

\* run_pandoc: the output file after the renderer ran on top of cur.
run_pandoc(cur, o, r) ==
  IF o = "pandoc_fail" THEN cur
  ELSE IF o = "verify_raise" THEN Unverified(r)
  ELSE Rendered(r)

\* A run_awk_post_processing that does not look at the exit code of awk.
AwkRaises_ExitCodeIgnored(o) == o = "awk_missing"

\* run_awk_post_processing raises: FileNotFoundError when the script is
\* missing, RuntimeError when awk exits non-zero.
AwkRaises(o) == o \in {"awk_fail", "awk_missing"}

\* process_file_with_page2html_logic on file f whose output holds cur.  The
\* value run_pandoc returns is not inspected: after a failed render the
\* pipeline stops only when open() finds no output file to read.
process_file_with_page2html_logic(f, cur, o, r) ==
  IF o = "prep_raise"
  THEN [disk |-> cur, ok |-> FALSE, inv |-> {"prep"}, wrote |-> FALSE]
  ELSE
    LET d1 == run_pandoc(cur, o, r)
        w1 == o # "pandoc_fail"
    IN
      IF d1 = Absent
      THEN [disk |-> d1, ok |-> FALSE, inv |-> {"prep", "pandoc"}, wrote |-> w1]
      ELSE IF NonNativeBranch(f)
      THEN [disk |-> PostProcessed(d1, r), ok |-> TRUE,
            inv |-> {"prep", "pandoc", "post", "js"}, wrote |-> TRUE]
      ELSE IF AwkRaises(o)
      THEN [disk |-> d1, ok |-> FALSE,
            inv |-> {"prep", "pandoc", "awk"}, wrote |-> w1]
      ELSE [disk |-> PostProcessed(d1, r), ok |-> TRUE,
            inv |-> {"prep", "pandoc", "awk", "post", "js"}, wrote |-> TRUE]

VARIABLES
  tree,             \* the source files that exist
  run,              \* number of the current run (0 before the first)
  forceHist,        \* FORCE_REBUILD of every run so far
  FORCE_REBUILD,    \* args.force_rebuild of the current run
  pc,               \* position of main()
  validated,        \* result of validate_config in the current run
  docsDirs,         \* directories that exist at or under the doc root
  disk,             \* content of each source file's OutputPath
  dirIndex,         \* run that wrote docs/<dir>/index.html (0: absent)
  rootIndex,        \* run that wrote docs/index.html (0: absent)
  robots,           \* run that wrote docs/robots.txt (0: absent)
  sitemap,          \* run that wrote docs/sitemap.xml (0: absent)
  assets,           \* run that last copied the assets (0: never)
  source_files,     \* main's source_files
  idx,              \* position of the for loop in source_files
  generated_files,  \* main's generated_files, keys in insertion order
  atStart,          \* the doc root when the current run started
  unlinkFailed,     \* HTML files the force-clean could not remove
  reach,            \* per file: did its OutputPath exist when reached
  outcome,          \* per file: tool outcomes drawn in this run
  invoked,          \* per file: pipeline stages invoked in this run
  written,          \* OutputPaths written in this run
  indexPandoc,      \* renderer invocations of generate_index in this run
  made,             \* end-of-run artifacts produced in this run
  endReason,        \* why the current run ended
  faults,           \* failures of the environment so far
  input,            \* argument of the function under study (function checks)
  output            \* its result, once it has been applied

mainVars ==
  << tree, run, forceHist, FORCE_REBUILD, pc, validated, docsDirs, disk,
     dirIndex, rootIndex, robots, sitemap, assets, source_files, idx,
     generated_files, atStart, unlinkFailed, reach, outcome, invoked,
     written, indexPandoc, made, endReason, faults >>

funVars == << input, output >>

vars == << mainVars, funVars >>

docVars == << docsDirs, disk, dirIndex, rootIndex, robots, sitemap, assets >>

loopVars == << source_files, idx, generated_files, reach, outcome, invoked,
               written >>

\* Everything at or under the doc root.
DocRoot ==
  [dirs |-> docsDirs, disk |-> disk, dirIndex |-> dirIndex,
   rootIndex |-> rootIndex, robots |-> robots, sitemap |-> sitemap,
   assets |-> assets]

\* n more failures of the environment stay within the explored number.
Fault(n) == /\ faults + n <= MaxFaults
            /\ faults' = faults + n

NoUnlinkFailed == [out |-> {}, dir |-> {}, root |-> FALSE]

\* No function is under study.
NoValue == << >>

MainInit ==
  /\ tree \in SUBSET FileIds
  /\ run = 0
  /\ forceHist = << >>
  /\ FORCE_REBUILD = FALSE
  /\ pc = "done"
  /\ validated = "pending"
  /\ docsDirs = {}
  /\ disk = [f \in FileIds |-> Absent]
  /\ dirIndex = [d \in SourceDirSet |-> 0]
  /\ rootIndex = 0
  /\ robots = 0
  /\ sitemap = 0
  /\ assets = 0
  /\ source_files = << >>
  /\ idx = 1
  /\ generated_files = << >>
  /\ atStart = DocRoot
  /\ unlinkFailed = NoUnlinkFailed
  /\ reach = [f \in FileIds |-> "unreached"]
  /\ outcome = [f \in FileIds |-> "none"]
  /\ invoked = [f \in FileIds |-> {}]
  /\ written = {}
  /\ indexPandoc = 0
  /\ made = {}
  /\ endReason = "none"
  /\ faults = 0

Init ==
  /\ MainInit
  /\ input = NoValue
  /\ output = NoValue

\* The script is started: the arguments are parsed, nothing else has run.
StartRun ==
  /\ pc = "done"
  /\ run < MaxRuns
  /\ \E force \in BOOLEAN :
       /\ FORCE_REBUILD' = force
       /\ forceHist' = Append(forceHist, force)
  /\ run' = run + 1
  /\ pc' = "validate"
  /\ validated' = "pending"
  /\ source_files' = << >>
  /\ idx' = 1
  /\ generated_files' = << >>
  /\ atStart' = DocRoot
  /\ unlinkFailed' = NoUnlinkFailed
  /\ reach' = [f \in FileIds |-> "unreached"]
  /\ outcome' = [f \in FileIds |-> "none"]
  /\ invoked' = [f \in FileIds |-> {}]
  /\ written' = {}
  /\ indexPandoc' = 0
  /\ made' = {}
  /\ endReason' = "none"
  /\ UNCHANGED funVars
  /\ UNCHANGED << tree, docVars, faults >>

\* A main that goes on after a failed validation.
AfterValidate_Ignored(ok) == "clean"

\* main: where a run goes after validate_config returned ok.
AfterValidate(ok) == IF ok THEN "clean" ELSE "done"

\* main: if not validate_config(): return
ValidateConfig ==
  /\ pc = "validate"
  /\ \E ok \in BOOLEAN :
       /\ Fault(IF ok THEN 0 ELSE 1)
       /\ validated' = IF ok THEN "ok" ELSE "failed"
       /\ pc' = AfterValidate(ok)
       /\ endReason' = IF AfterValidate(ok) = "done" THEN "validation" ELSE endReason
  /\ UNCHANGED funVars
  /\ UNCHANGED << tree, run, forceHist, FORCE_REBUILD, docVars, loopVars,
                  atStart, unlinkFailed, indexPandoc, made >>

\* The HTML files DOCS_DIR.rglob('*.html') finds.
HtmlOut == {f \in FileIds : disk[f] # Absent}

HtmlDir == {d \in SourceDirSet : dirIndex[d] # 0}

\* A force-clean that uses glob instead of rglob: only the top directory.
CleanTargets_TopLevelOnly(found) == {f \in found : Candidates[f].dir = "root"}

\* Which of the HTML files found the force-clean tries to unlink.
CleanTargets(found) == found

\* main: DOCS_DIR.mkdir, then the force-clean of every HTML file; an unlink
\* that fails is reported and the file stays.
CleanDocs ==
  /\ pc = "clean"
  /\ docsDirs' = docsDirs \cup {"docs"}
  /\ IF FORCE_REBUILD
     THEN \E fo \in SUBSET CleanTargets(HtmlOut), fd \in SUBSET HtmlDir,
             fr \in {b \in BOOLEAN : b => rootIndex # 0} :
            /\ Fault(Cardinality(fo) + Cardinality(fd) + (IF fr THEN 1 ELSE 0))
            /\ unlinkFailed' = [out |-> fo, dir |-> fd, root |-> fr]
            /\ disk' = [f \in FileIds |->
                          IF f \in CleanTargets(HtmlOut) \ fo THEN Absent
                          ELSE disk[f]]
            /\ dirIndex' = [d \in SourceDirSet |->
                              IF d \in fd THEN dirIndex[d] ELSE 0]
            /\ rootIndex' = IF fr THEN rootIndex ELSE 0
     ELSE UNCHANGED << unlinkFailed, disk, dirIndex, rootIndex, faults >>
  /\ pc' = "assets"
  /\ UNCHANGED funVars
  /\ UNCHANGED << tree, run, forceHist, FORCE_REBUILD, validated, robots,
                  sitemap, assets, loopVars, atStart, indexPandoc, made,
                  endReason >>

\* main: if not copy_assets(...): return
CopyAssets ==
  /\ pc = "assets"
  /\ \E ok \in BOOLEAN :
       /\ Fault(IF ok THEN 0 ELSE 1)
       /\ assets' = IF ok THEN run ELSE assets
       /\ pc' = IF ok THEN "enumerate" ELSE "done"
       /\ endReason' = IF ok THEN endReason ELSE "assets"
  /\ UNCHANGED funVars
  /\ UNCHANGED << tree, run, forceHist, FORCE_REBUILD, validated, docsDirs,
                  disk, dirIndex, rootIndex, robots, sitemap, loopVars,
                  atStart, unlinkFailed, indexPandoc, made >>

\* main: source_files = find_source_files(...); if not source_files: return
Enumerate ==
  /\ pc = "enumerate"
  /\ source_files' = find_source_files(tree)
  /\ idx' = 1
  /\ generated_files' = << >>
  /\ pc' = IF source_files' = << >> THEN "done" ELSE "files"
  /\ endReason' = IF source_files' = << >> THEN "nosources" ELSE endReason
  /\ UNCHANGED funVars
  /\ UNCHANGED << tree, run, forceHist, FORCE_REBUILD, validated, docVars,
                  atStart, unlinkFailed, reach, outcome, invoked, written,
                  indexPandoc, made, faults >>

\* A skip test with the force flag inverted.
SkipExisting_ForceInverted(force, cur) == force /\ cur # Absent

\* A main without the skip of existing files.
SkipExisting_Never(force, cur) == FALSE

\* main: the test that skips a file whose OutputPath exists.
SkipExisting(force, cur) == ~force /\ cur # Absent

\* A loop that stops one file early.
LoopDone_OffByOne(i, files) == i >= Len(files)

\* main: the for loop has gone through every source file.
LoopDone(i, files) == i > Len(files)

\* A main that gives up at the first file whose pipeline fails.
AfterProcessFile_AbortOnFailure(ok, i, files) ==
  IF ~ok THEN "done"
  ELSE IF LoopDone(i + 1, files) THEN "dirindex" ELSE "files"

\* main: where the loop goes after the iteration on files[i]; the result of
\* the pipeline only decides whether the file enters generated_files.
AfterProcessFile(ok, i, files) ==
  IF LoopDone(i + 1, files) THEN "dirindex" ELSE "files"

\* main: one iteration of the for loop over source_files.
ProcessFile ==
  /\ pc = "files"
  /\ ~LoopDone(idx, source_files)
  /\ LET f == source_files[idx]
         d == Candidates[f].dir
     IN
       /\ docsDirs' = docsDirs \cup (IF d = "root" THEN {} ELSE {d})
       /\ reach' = [reach EXCEPT ![f] =
                      IF disk[f] # Absent THEN "existed" ELSE "absent"]
       /\ IF SkipExisting(FORCE_REBUILD, disk[f])
          THEN /\ generated_files' = Append(generated_files, f)
               /\ pc' = AfterProcessFile(TRUE, idx, source_files)
               /\ UNCHANGED << disk, outcome, invoked, written, faults >>
          ELSE \E o \in OutcomesFor(f) :
                 LET res == process_file_with_page2html_logic(f, disk[f], o, run)
                 IN  /\ Fault(IF o = "ok" THEN 0 ELSE 1)
                     /\ disk' = [disk EXCEPT ![f] = res.disk]
                     /\ outcome' = [outcome EXCEPT ![f] = o]
                     /\ invoked' = [invoked EXCEPT ![f] = res.inv]
                     /\ written' = IF res.wrote THEN written \cup {f} ELSE written
                     /\ generated_files' =
                          IF res.ok THEN Append(generated_files, f)
                          ELSE generated_files
                     /\ pc' = AfterProcessFile(res.ok, idx, source_files)
  /\ idx' = idx + 1
  /\ UNCHANGED funVars
  /\ UNCHANGED << tree, run, forceHist, FORCE_REBUILD, validated, dirIndex,
                  rootIndex, robots, sitemap, assets, source_files, atStart,
                  unlinkFailed, indexPandoc, made, endReason >>

\* generate_directory_index: the index page is written unless it fails.
DirIndexWritten(dirs, failing) == dirs \ failing

\* main: the loop over SOURCE_DIRS calling generate_directory_index for every
\* docs/<dir> that exists; a failure is reported and the loop goes on.
GenerateDirectoryIndexes ==
  /\ pc = "dirindex"
  /\ LET dirs == SourceDirSet \cap docsDirs
     IN  \E failing \in SUBSET dirs :
           /\ Fault(Cardinality(failing))
           /\ dirIndex' = [d \in SourceDirSet |->
                          IF d \in DirIndexWritten(dirs, failing) THEN run
                          ELSE dirIndex[d]]
  /\ made' = made \cup {"dirindex"}
  /\ pc' = "rootindex"
  /\ UNCHANGED funVars
  /\ UNCHANGED << tree, run, forceHist, FORCE_REBUILD, validated, docsDirs,
                  disk, rootIndex, robots, sitemap, assets, loopVars, atStart,
                  unlinkFailed, indexPandoc, endReason >>

\* Outcomes of generate_index: it returns True, it returns False because the
\* renderer exited non-zero, or an exception escapes it before the renderer
\* is started.
IndexOutcomes == {"ok", "pandoc_fail", "raise"}

\* main: if not generate_index(...): return
GenerateIndex ==
  /\ pc = "rootindex"
  /\ \E o \in IndexOutcomes :
       /\ Fault(IF o = "ok" THEN 0 ELSE 1)
       /\ indexPandoc' = IF o = "raise" THEN indexPandoc ELSE indexPandoc + 1
       /\ rootIndex' = IF o = "ok" THEN run ELSE rootIndex
       /\ made' = IF o = "ok" THEN made \cup {"rootindex"} ELSE made
       /\ pc' = IF o = "ok" THEN "robots" ELSE "done"
       /\ endReason' = CASE o = "ok" -> endReason
                         [] o = "pandoc_fail" -> "index"
                         [] OTHER -> "exception"
  /\ UNCHANGED funVars
  /\ UNCHANGED << tree, run, forceHist, FORCE_REBUILD, validated, docsDirs,
                  disk, dirIndex, robots, sitemap, assets, loopVars, atStart,
                  unlinkFailed >>

\* main: if not generate_robots_txt(...): return
GenerateRobots ==
  /\ pc = "robots"
  /\ \E ok \in BOOLEAN :
       /\ Fault(IF ok THEN 0 ELSE 1)
       /\ robots' = IF ok THEN run ELSE robots
       /\ made' = IF ok THEN made \cup {"robots"} ELSE made
       /\ pc' = IF ok THEN "sitemap" ELSE "done"
       /\ endReason' = IF ok THEN endReason ELSE "robots"
  /\ UNCHANGED funVars
  /\ UNCHANGED << tree, run, forceHist, FORCE_REBUILD, validated, docsDirs,
                  disk, dirIndex, rootIndex, sitemap, assets, loopVars,
                  atStart, unlinkFailed, indexPandoc >>

\* main: if not generate_sitemap(...): return
GenerateSitemap ==
  /\ pc = "sitemap"
  /\ \E ok \in BOOLEAN :
       /\ Fault(IF ok THEN 0 ELSE 1)
       /\ sitemap' = IF ok THEN run ELSE sitemap
       /\ made' = IF ok THEN made \cup {"sitemap"} ELSE made
       /\ pc' = IF ok THEN "jscopy" ELSE "done"
       /\ endReason' = IF ok THEN endReason ELSE "sitemap"
  /\ UNCHANGED funVars
  /\ UNCHANGED << tree, run, forceHist, FORCE_REBUILD, validated, docsDirs,
                  disk, dirIndex, rootIndex, robots, assets, loopVars,
                  atStart, unlinkFailed, indexPandoc >>

\* main: the closing copy of the Basilisk JS files into docs/assets/js.
CopyBasiliskJs ==
  /\ pc = "jscopy"
  /\ \E ok \in BOOLEAN :
       /\ Fault(IF ok THEN 0 ELSE 1)
       /\ assets' = IF ok THEN run ELSE assets
       /\ endReason' = IF ok THEN "complete" ELSE "exception"
  /\ pc' = "done"
  /\ UNCHANGED funVars
  /\ UNCHANGED << tree, run, forceHist, FORCE_REBUILD, validated, docsDirs,
                  disk, dirIndex, rootIndex, robots, sitemap, loopVars,
                  atStart, unlinkFailed, indexPandoc, made >>

Next ==
  \/ StartRun
  \/ ValidateConfig
  \/ CleanDocs
  \/ CopyAssets
  \/ Enumerate
  \/ ProcessFile
  \/ GenerateDirectoryIndexes
  \/ GenerateIndex
  \/ GenerateRobots
  \/ GenerateSitemap
  \/ CopyBasiliskJs

Spec == Init /\ [][Next]_vars

(***************************************************************************)
(* Properties of the build driver.                                         *)
(***************************************************************************)
InMapping(f) == \E i \in 1..Len(generated_files) : generated_files[i] = f

\* The per-file step of every enumerated source file has finished.
AllProcessed ==
  \A i \in 1..Len(source_files) : reach[source_files[i]] # "unreached"

\* The current run is the second of two consecutive runs without force-rebuild.
SecondUnforcedRun ==
  /\ run >= 2
  /\ ~forceHist[run]
  /\ ~forceHist[run - 1]

\* Renderer invocations of the current run, per-file and index alike.
PandocCalls ==
  indexPandoc + Cardinality({f \in FileIds : "pandoc" \in invoked[f]})

\* C1: in a run without force-rebuild, a source file whose OutputPath exists
\* when the driver reaches it is added to BuildMapping and none of the
\* preprocessor, the renderer, the anchor-tagging tool or the post-processor
\* is invoked for it.
C1_SkipAddsWithoutPipeline ==
  \A f \in FileIds :
    (~FORCE_REBUILD /\ reach[f] = "existed")
      => (InMapping(f) /\ invoked[f] = {})

C1_Witness ==
  /\ ~FORCE_REBUILD
  /\ pc = "done"
  /\ endReason = "complete"
  /\ \E f \in FileIds : reach[f] = "existed" /\ InMapping(f)
  /\ \E f \in FileIds : reach[f] = "absent" /\ invoked[f] # {}

\* C2: in a second consecutive run without force-rebuild, no per-source
\* output file that existed when the run started is written: its content
\* stays what it was at the end of the first run.
C2_SecondRunLeavesOutputs ==
  SecondUnforcedRun =>
    \A f \in FileIds :
      atStart.disk[f] # Absent
        => (disk[f] = atStart.disk[f] /\ f \notin written)

C2_Witness ==
  /\ SecondUnforcedRun
  /\ pc = "done"
  /\ endReason = "complete"
  /\ \E f \in FileIds : atStart.disk[f] # Absent /\ reach[f] = "existed"
  /\ written # {}

\* C3 as stated: the second of two consecutive runs without force-rebuild
\* invokes the renderer zero times, index generation included.
C3_Original == SecondUnforcedRun => PandocCalls = 0

\* C3 as amended: the second of two consecutive runs without force-rebuild
\* invokes the renderer for no source file whose OutputPath existed at the
\* end of the first run; only files without an output are rendered, and
\* generating the root index invokes the renderer once.
C3_SecondRunRendersOnlyMissing ==
  SecondUnforcedRun =>
    /\ \A f \in FileIds :
         "pandoc" \in invoked[f] => atStart.disk[f] = Absent
    /\ indexPandoc <= 1
    /\ ("rootindex" \in made => indexPandoc = 1)

C3_Witness ==
  /\ SecondUnforcedRun
  /\ pc = "done"
  /\ endReason = "complete"
  /\ indexPandoc = 1
  /\ \E f \in FileIds : atStart.disk[f] # Absent /\ InMapping(f)
  /\ \A f \in FileIds : "pandoc" \notin invoked[f]

\* The force-clean is over and no per-source render of this run has started.
BeforeFirstRender ==
  \/ pc \in {"assets", "enumerate"}
  \/ (pc = "files" /\ idx = 1)

\* C4 as stated: in a run with force-rebuild, every HTML file that exists
\* under the doc root at the start of the run is deleted before the first
\* per-source render: none is left at that point.
C4_Original ==
  (FORCE_REBUILD /\ BeforeFirstRender) =>
    /\ \A f \in FileIds : disk[f] = Absent
    /\ \A d \in SourceDirSet : dirIndex[d] = 0
    /\ rootIndex = 0

\* C4 as amended: in a run with force-rebuild, every HTML file under the doc
\* root whose removal does not fail is deleted before the first per-source
\* render; a file whose removal fails is reported and left as it was.
C4_ForceCleanBeforeRender ==
  (FORCE_REBUILD /\ BeforeFirstRender) =>
    /\ \A f \in FileIds :
         IF f \in unlinkFailed.out THEN disk[f] = atStart.disk[f]
         ELSE disk[f] = Absent
    /\ \A d \in SourceDirSet :
         IF d \in unlinkFailed.dir THEN dirIndex[d] = atStart.dirIndex[d]
         ELSE dirIndex[d] = 0
    /\ IF unlinkFailed.root THEN rootIndex = atStart.rootIndex
       ELSE rootIndex = 0

C4_Witness ==
  /\ FORCE_REBUILD
  /\ pc = "files"
  /\ idx = 1
  /\ \E f \in FileIds :
       /\ atStart.disk[f] # Absent
       /\ Candidates[f].dir # "root"
       /\ disk[f] = Absent
  /\ atStart.rootIndex # 0
  /\ rootIndex = 0

RECURSIVE FreshBuild(_, _, _)
\* The BuildMapping of a run without force-rebuild started on an empty doc
\* root, for source files files and tool outcomes outs: main's loop applied
\* to output files that do not exist.
FreshBuild(files, outs, r) ==
  IF files = << >> THEN << >>
  ELSE LET f == Head(files)
           ok == IF SkipExisting(FALSE, Absent) THEN TRUE
                 ELSE process_file_with_page2html_logic(f, Absent, outs[f], r).ok
       IN  (IF ok THEN << f >> ELSE << >>) \o FreshBuild(Tail(files), outs, r)

\* C5: for the same source tree and the same tool outcomes per file, the
\* BuildMapping at the end of a force-rebuild run, whatever the doc root held
\* before, equals the BuildMapping of a non-forced run on an empty doc root.
C5_ForceEqualsFresh ==
  (FORCE_REBUILD /\ pc \in {"dirindex", "rootindex", "robots", "sitemap", "jscopy"})
    => generated_files = FreshBuild(source_files, outcome, run)

C7_MappingHoldsCompletePages ==
  \A f \in FileIds : InMapping(f) => disk[f].stage = "complete"

\* C8: when configuration validation fails, main ends without creating,
\* changing or deleting anything under the doc root.
C8_FailedValidationTouchesNothing ==
  validated = "failed" => (pc = "done" /\ DocRoot = atStart)

C8_Witness ==
  /\ validated = "failed"
  /\ FORCE_REBUILD
  /\ pc = "done"
  /\ rootIndex # 0
  /\ \E f \in FileIds : disk[f] # Absent

IndexPhases == {"dirindex", "rootindex", "robots", "sitemap", "jscopy"}

\* C9: directory-index and root-index generation start only after the
\* per-file step of every enumerated source file has finished, and
\* BuildMapping does not change once index generation is due.
C9_IndexBarrier ==
  /\ [](pc \in IndexPhases => (idx > Len(source_files) /\ AllProcessed))
  /\ [][(pc \in IndexPhases) => (generated_files' = generated_files)]_vars

C9_Witness ==
  /\ pc = "rootindex"
  /\ "dirindex" \in made
  /\ Len(source_files) >= 2
  /\ Len(generated_files) >= 1
  /\ Len(generated_files) < Len(source_files)

AllArtifacts == {"dirindex", "rootindex", "robots", "sitemap"}

\* C10 as stated: every run whose validation succeeds generates the
\* directory indexes, the root index, robots.txt and sitemap.xml.
C10_Original ==
  (pc = "done" /\ validated = "ok") => made = AllArtifacts

\* C10 as amended: a run whose validation succeeds ends before it has
\* generated the directory indexes, the root index, robots.txt and
\* sitemap.xml only when copy_assets fails, no source file is found,
\* generate_index, generate_robots_txt or generate_sitemap fails, or an
\* exception escapes main; a failed per-file pipeline or a failed directory
\* index never ends the run.
C10_EarlyEndOnlyOnListedFailures ==
  (pc = "done" /\ validated = "ok")
    => \/ made = AllArtifacts /\ AllProcessed
       \/ /\ endReason \in {"assets", "nosources", "index", "robots",
                            "sitemap", "exception"}
          /\ (endReason \in {"index", "robots", "sitemap"} =>
                ("dirindex" \in made /\ AllProcessed))

C10_Witness ==
  /\ pc = "done"
  /\ validated = "ok"
  /\ endReason = "complete"
  /\ made = AllArtifacts
  /\ \E f \in FileIds :
       outcome[f] \in {"prep_raise", "pandoc_fail", "awk_fail"}
  /\ \E d \in SourceDirSet : d \in docsDirs /\ dirIndex[d] # run

(***************************************************************************)
(* Output paths (main, line 2166).  A file name is the sequence of its     *)
(* dot-separated pieces, the first without a dot and every later one        *)
(* starting with its dot: two.h is <<"two", ".h">>.  A path is the          *)
(* sequence of its directories and a name.                                  *)
(***************************************************************************)
DirPool ==
  { << >>, << "src-local" >>, << "src-local", "sub" >>, << "postProcess" >> }

NamePool ==
  { << "Makefile" >>, << "two", ".h" >>, << "two", ".c" >>,
    << "two", ".c", ".html" >>, << "a", ".tar", ".py" >>, << "nb", ".ipynb" >>,
    << "notes", ".dat" >>, << "", ".c" >>, << "run", ".sh" >> }

PathPool == [dirs : DirPool, name : NamePool]

\* pathlib's PurePath.suffix: the piece after the last dot, unless that dot
\* starts or ends the name.
PathSuffix(name) ==
  IF /\ Len(name) >= 2
     /\ name[Len(name)] # "."
     /\ ~(Len(name) = 2 /\ name[1] = "")
  THEN name[Len(name)]
  ELSE ""

\* pathlib's PurePath.with_suffix, the new suffix given by its pieces.
with_suffix(name, pieces) ==
  IF PathSuffix(name) = "" THEN name \o pieces
  ELSE SubSeq(name, 1, Len(name) - 1) \o pieces

\* suffix + '.html', by its pieces.
SuffixPlusHtml(name) ==
  IF PathSuffix(name) = "" THEN << ".html" >>
  ELSE << PathSuffix(name), ".html" >>

\* find_source_files: the test that admits a path.
AcceptedPath(p) ==
  \/ (Len(p.name) = 1 /\ p.name[1] \in valid_names)
  \/ PathSuffix(p.name) \in valid_exts

\* An output path that replaces the suffix instead of extending it.
OutputPath_SuffixReplaced(p) ==
  [root |-> "docs", dirs |-> p.dirs, name |-> with_suffix(p.name, << ".html" >>)]

\* main: DOCS_DIR / relative_path.with_suffix(relative_path.suffix + '.html')
OutputPath(p) ==
  [root |-> "docs", dirs |-> p.dirs,
   name |-> with_suffix(p.name, SuffixPlusHtml(p.name))]

\* Two files of the tree are enumerated and their output paths computed.
ComputeOutputPaths ==
  /\ output = NoValue
  /\ Len(input) = 2
  /\ output' = [i \in 1..2 |->
                  [accepted |-> AcceptedPath(input[i]),
                   path |-> OutputPath(input[i])]]
  /\ UNCHANGED << mainVars, input >>

InitOutputPath ==
  /\ MainInit
  /\ tree = {}
  /\ input \in [1..2 -> PathPool]
  /\ output = NoValue

SpecOutputPath == InitOutputPath /\ [][ComputeOutputPaths]_vars

\* C11: the OutputPath of an accepted source file is the doc root joined
\* with its repository-relative path with '.html' appended after the original
\* suffix, and two distinct enumerated source files never share an OutputPath.
C11_OutputPathAppendsHtml ==
  output # NoValue =>
    /\ \A i \in 1..2 :
         output[i].accepted =>
           output[i].path = [root |-> "docs", dirs |-> input[i].dirs,
                             name |-> input[i].name \o << ".html" >>]
    /\ (output[1].accepted /\ output[2].accepted /\ input[1] # input[2])
          => output[1].path # output[2].path

C11_Witness ==
  /\ output # NoValue
  /\ input[1] = [dirs |-> << "src-local", "sub" >>, name |-> << "two", ".c" >>]
  /\ input[2] = [dirs |-> << "src-local", "sub" >>, name |-> << "two", ".h" >>]
  /\ output[1].accepted
  /\ output[2].accepted
  /\ output[1].path.name = << "two", ".c", ".html" >>
  /\ output[2].path.name = << "two", ".h", ".html" >>

(***************************************************************************)
(* calculate_asset_prefix.  The prefix is the sequence of the segments     *)
(* that '/'.join puts together; '.' is the one-segment prefix << "." >>.    *)
(***************************************************************************)
\* Deepest nesting of an output file below the doc root that is explored.
MaxDepth == 3

DepthDirNames == {"x", "y"}

RECURSIVE DirSeqs(_)
\* The directory sequences of length at most n.
DirSeqs(n) ==
  IF n = 0 THEN { << >> }
  ELSE LET shorter == DirSeqs(n - 1)
       IN  shorter \cup {Append(d, x) : d \in shorter, x \in DepthDirNames}

\* Output paths under the doc root and one directory that is not under it.
PrefixInputs ==
  [root : {"docs", "elsewhere"}, dirs : DirSeqs(MaxDepth),
   name : { << "index", ".html" >>, << "two", ".h", ".html" >>,
            << "Makefile", ".html" >> }]

RECURSIVE Repeat(_, _)
\* [x] * n
Repeat(x, n) == IF n <= 0 THEN << >> ELSE << x >> \o Repeat(x, n - 1)

\* A depth that counts the '.' entry of parents too.
PrefixDepth_NoMinusOne(p) == Len(p.dirs) + 1

\* len(output_html_path.relative_to(docs_dir).parents) - 1: parents holds one
\* entry per directory of the relative path and a last one, '.'.
PrefixDepth(p) == (Len(p.dirs) + 1) - 1

calculate_asset_prefix(p, docs_dir) ==
  IF p.name = << "index", ".html" >> /\ p.root = docs_dir /\ p.dirs = << >>
  THEN << "." >>
  ELSE IF p.root # docs_dir THEN << "." >>
  ELSE IF PrefixDepth(p) <= 0 THEN << "." >>
  ELSE Repeat("..", PrefixDepth(p))

ComputeAssetPrefix ==
  /\ output = NoValue
  /\ output' = calculate_asset_prefix(input, "docs")
  /\ UNCHANGED << mainVars, input >>

InitAssetPrefix ==
  /\ MainInit
  /\ tree = {}
  /\ input \in PrefixInputs
  /\ output = NoValue

SpecAssetPrefix == InitAssetPrefix /\ [][ComputeAssetPrefix]_vars

\* C12: calculate_asset_prefix returns '.' for the root index file and for any
\* file directly under the doc root, and exactly d '..' segments joined by
\* '/' for a file nested d >= 1 directories below the doc root.
C12_AssetPrefixByDepth ==
  (output # NoValue /\ input.root = "docs") =>
    IF input.dirs = << >> THEN output = << "." >>
    ELSE /\ Len(output) = Len(input.dirs)
         /\ \A i \in 1..Len(output) : output[i] = ".."

C12_Witness ==
  /\ input.root = "docs"
  /\ Len(input.dirs) = 2
  /\ input.name = << "index", ".html" >>
  /\ output = << "..", ".." >>

\* C13: every output file recorded in BuildMapping, rendered in this run or
\* taken over as already existing, holds a doctype declaration and an html
\* root element.
C13_MappedPagesAreValidHtml ==
  \A f \in FileIds : InMapping(f) => (disk[f] # Absent /\ disk[f].valid)

(***************************************************************************)
(* convert_directory_tree_to_html.  A line of the tree block is given by   *)
(* its indent_level (the count of three-space groups before the token),    *)
(* its token without the trailing '/', and whether the token ends in '/'.  *)
(* A link target is a sequence of path segments joined by '/'.             *)
(***************************************************************************)
MaxTreeLines == 3

MaxIndent == 2

TreeDirNames == {"app", "core"}

TreeFileNames == {"main.c", "x.h"}

TreeLines ==
  [indent_level : 0..MaxIndent, path : TreeDirNames, is_dir : {TRUE}] \cup
  [indent_level : 0..MaxIndent, path : TreeFileNames, is_dir : {FALSE}]

TreeTexts == UNION { [1..n -> TreeLines] : n \in 1..MaxTreeLines }

\* The loop state before the first line.
TreeStart == [path_stack |-> << >>, prev_indent |-> 0 - 1, links |-> << >>,
              raised |-> FALSE]

Min(a, b) == IF a < b THEN a ELSE b

\* An update that forgets to drop the entries of the levels left behind.
AdjustStack_NoPop(path_stack, prev_indent, indent_level) ==
  IF indent_level > prev_indent /\ path_stack # << >> /\ prev_indent >= 0
    THEN Append(path_stack, path_stack[Len(path_stack)])
    ELSE path_stack

\* The update of path_stack on a change of indentation.
AdjustStack(path_stack, prev_indent, indent_level) ==
  IF indent_level > prev_indent
    THEN IF path_stack # << >> /\ prev_indent >= 0
           THEN Append(path_stack, path_stack[Len(path_stack)])
           ELSE path_stack
  ELSE IF indent_level < prev_indent
    THEN SubSeq(path_stack, 1,
                Len(path_stack) - Min(prev_indent - indent_level, Len(path_stack)))
  ELSE path_stack

\* The link of a directory line: the directory's own name.
DirLink(stack, line) == [target |-> << line.path >>, html |-> FALSE]

\* One iteration of the loop over the lines of the tree block.
TreeStep(st, line) ==
  LET stack == AdjustStack(st.path_stack, st.prev_indent, line.indent_level)
      lvl == line.indent_level
  IN  IF st.raised THEN st
      ELSE IF line.is_dir
        THEN [path_stack |-> IF Len(stack) <= lvl
                               THEN Append(stack, line.path)
                               ELSE [stack EXCEPT ![lvl + 1] = line.path],
              prev_indent |-> lvl,
              links |-> Append(st.links, DirLink(stack, line)),
              raised |-> FALSE]
      ELSE IF lvl > 0 /\ stack # << >> /\ lvl > Len(stack)
        THEN [st EXCEPT !.raised = TRUE]       \* path_stack[indent_level-1]: IndexError
      ELSE [path_stack |-> stack,
            prev_indent |-> lvl,
            links |-> Append(st.links,
                        [target |-> IF lvl > 0 /\ stack # << >>
                                      THEN << stack[lvl], line.path >>
                                      ELSE << line.path >>,
                         html |-> TRUE]),
            raised |-> FALSE]

RECURSIVE TreeFold(_, _)
TreeFold(lines, n) ==
  IF n = 0 THEN TreeStart ELSE TreeStep(TreeFold(lines, n - 1), lines[n])

convert_directory_tree_to_html(lines) == TreeFold(lines, Len(lines))

ConvertTree ==
  /\ output = NoValue
  /\ output' = convert_directory_tree_to_html(input)
  /\ UNCHANGED << mainVars, input >>

InitTree ==
  /\ MainInit
  /\ tree = {}
  /\ input \in TreeTexts
  /\ output = NoValue

SpecTree == InitTree /\ [][ConvertTree]_vars

\* A tree block with proper nesting: it starts at the top level, and a line
\* is indented one level more than the line before it only below a
\* directory.
WellNested(lines) ==
  /\ lines[1].indent_level = 0
  /\ \A i \in 2..Len(lines) :
       /\ lines[i].indent_level <= lines[i - 1].indent_level + 1
       /\ lines[i].indent_level = lines[i - 1].indent_level + 1
            => lines[i - 1].is_dir

\* The ancestor of line i at level k: the last directory line at that level
\* before line i.
AncestorAt(lines, i, k) ==
  LET js == { j \in 1..(i - 1) : lines[j].indent_level = k }
      j == CHOOSE x \in js : \A y \in js : y <= x
  IN  lines[j].path

FullPath(lines, i) ==
  [k \in 1..lines[i].indent_level |-> AncestorAt(lines, i, k - 1)]
    \o << lines[i].path >>

\* C14: for a tree block with nested directories every directory is linked
\* to its full path from the tree root and every file to its full path plus
\* '.html'.
C14_TreeLinksFullPaths ==
  (output # NoValue /\ WellNested(input)) =>
    /\ ~output.raised
    /\ Len(output.links) = Len(input)
    /\ \A i \in 1..Len(input) :
         /\ output.links[i].target = FullPath(input, i)
         /\ output.links[i].html = ~input[i].is_dir

(***************************************************************************)
(* create_include_link of post_process_c_html.  The current source file    *)
(* lies in directory dirs below the repository root; the include names a   *)
(* file, possibly behind a directory prefix; local is the set of file      *)
(* names present in the src-local directory.  A link is either the         *)
(* external URL built from the include or a relative path: directory       *)
(* segments followed by a file name.                                       *)
(***************************************************************************)
IncludeNames == { << "two", ".h" >>, << "nope", ".h" >> }

IncludePrefixes == { << >>, << "grid" >> }

IncludeInputs ==
  [dirs : DirSeqs(MaxDepth), prefix : IncludePrefixes, name : IncludeNames,
   local : SUBSET IncludeNames]

\* os.path.relpath(target, start) for a target repo_root/tdirs/name and a start
\* directory repo_root/dirs that share no leading directory.
relpath(tdirs, dirs) == Repeat("..", Len(dirs)) \o tdirs

\* link_url.replace('/docs/', '/'): a 'docs' directory segment is dropped
\* where a '/' stands before it, which the first segment lacks.
RECURSIVE CollapseDocs(_, _)
CollapseDocs(segs, i) ==
  IF i > Len(segs) THEN << >>
  ELSE IF i > 1 /\ segs[i] = "docs" THEN CollapseDocs(segs, i + 1)
  ELSE << segs[i] >> \o CollapseDocs(segs, i + 1)

create_include_link(in) ==
  IF in.name \in in.local
    THEN [external |-> FALSE,
          segs |-> CollapseDocs(relpath(<< "docs", "src-local" >>, in.dirs), 1),
          name |-> with_suffix(in.name, SuffixPlusHtml(in.name))]
    ELSE [external |-> TRUE, segs |-> in.prefix, name |-> in.name]

CreateIncludeLink ==
  /\ output = NoValue
  /\ output' = create_include_link(input)
  /\ UNCHANGED << mainVars, input >>

InitInclude ==
  /\ MainInit
  /\ tree = {}
  /\ input \in IncludeInputs
  /\ output = NoValue

SpecInclude == InitInclude /\ [][CreateIncludeLink]_vars

\* The directory a relative link denotes when followed from directory base.
RECURSIVE Resolve(_, _, _)
Resolve(base, segs, i) ==
  IF i > Len(segs) THEN base
  ELSE IF segs[i] = ".."
    THEN Resolve(IF base = << >> THEN base ELSE SubSeq(base, 1, Len(base) - 1),
                 segs, i + 1)
  ELSE Resolve(Append(base, segs[i]), segs, i + 1)

\* C15: for a native source file in the repository root or at any depth
\* below it, an include of a file present in src-local is linked, relative to
\* the directory of the current file's output path, to that file's output
\* path; any other include is linked to the external URL built from it.
C15_IncludeLinkTarget ==
  output # NoValue =>
    IF input.name \in input.local
      THEN /\ ~output.external
           /\ Resolve(<< "docs" >> \o input.dirs, output.segs, 1)
                = << "docs", "src-local" >>
           /\ output.name = OutputPath([dirs |-> << "src-local" >>,
                                        name |-> input.name]).name
      ELSE /\ output.external
           /\ output.segs = input.prefix
           /\ output.name = input.name

(***************************************************************************)
(* fix_doc_links of post_process_python_shell_html.  An anchor is given by *)
(* its href, a sequence of pieces whose concatenation is the attribute     *)
(* value, by whether attributes stand before or after the href, and by     *)
(* whether its text is plain or holds markup.                              *)
(***************************************************************************)
HrefStarts == {"util", "https://example.com/util", "http://example.com/util",
               "#sec", "httpd"}

HrefEnds == { << >>, << ".c" >>, << ".h" >>, << ".py" >>, << ".sh" >>,
              << ".md" >>, << ".ipynb" >>, << ".txt" >>,
              << ".py", ".html" >>, << ".html" >> }

Hrefs == { << a >> \o e : a \in HrefStarts, e \in HrefEnds }

Anchors == [href : Hrefs, attrs_before : BOOLEAN, attrs_after : BOOLEAN,
            plain_text : BOOLEAN]

\* The extensions of r'\.(c|h|py|sh|md)$'.
LinkExts == {".c", ".h", ".py", ".sh", ".md"}

\* href.startswith('http') (which covers startswith('https')).
StartsWithHttp(href) ==
  href[1] \in {"https://example.com/util", "http://example.com/util", "httpd"}

StartsWithHash(href) == href[1] = "#sec"

\* The pattern r'<a[^>]+href="[^"]+">[^<]+</a>': the href closes the opening
\* tag and the text holds no tag.
AnchorPattern(a) == ~a.attrs_after /\ a.plain_text

fix_doc_links(a) ==
  IF /\ AnchorPattern(a)
     /\ ~StartsWithHttp(a.href)
     /\ ~StartsWithHash(a.href)
     /\ a.href[Len(a.href)] # ".html"
     /\ a.href[Len(a.href)] \in LinkExts
    THEN Append(a.href, ".html")
    ELSE a.href

FixDocLinks ==
  /\ output = NoValue
  /\ output' = fix_doc_links(input)
  /\ UNCHANGED << mainVars, input >>

InitLinks ==
  /\ MainInit
  /\ tree = {}
  /\ input \in Anchors
  /\ output = NoValue

SpecLinks == InitLinks /\ [][FixDocLinks]_vars

\* The href conditions of the link-suffixing rule.
SuffixingApplies(href) ==
  /\ href[Len(href)] \in LinkExts
  /\ href[1] \notin {"https://example.com/util", "http://example.com/util"}
  /\ ~StartsWithHash(href)
  /\ href[Len(href)] # ".html"

\* C16: the link-suffixing pass appends '.html' to the href of an anchor
\* exactly when the href ends in a recognized source extension, is not
\* http(s)-prefixed, does not start with '#' and does not already end in
\* '.html'; every other anchor is left unmodified.
C16_LinkSuffixing ==
  output # NoValue =>
    output = IF SuffixingApplies(input.href)
               THEN Append(input.href, ".html")
               ELSE input.href

(***************************************************************************)
(* The metadata extraction of process_jupyter_notebook.  The markdown cell *)
(* is a top-level heading followed by blocks, each separated from what     *)
(* stands before it by a blank line; a block is a paragraph or a run of    *)
(* bullet items.                                                           *)
(***************************************************************************)
MaxBlocks == 3

FeatureLimit == 3

Paragraphs == { [kind |-> "para", text |-> t, items |-> << >>] :
                  t \in {"Short blurb.", "More."} }

BulletRuns == { [kind |-> "bullets", text |-> "", items |-> it] :
                  it \in { << "F1" >>, << "F1", "F2" >>,
                           << "F1", "F2", "F3", "F4" >> } }

Blocks == Paragraphs \cup BulletRuns

Cells == [title : {"Demo"},
          blocks : UNION { [1..n -> Blocks] : n \in 0..MaxBlocks }]

\* Defaults used when nothing was extracted.
DefaultDescription == [kind |-> "default", text |-> "", items |-> << >>]

DefaultFeatures == << "Visualization of data and results",
                      "Analysis of simulation outputs",
                      "Interactive exploration of parameters" >>

\* re.findall(r'^\s*[\*\-\+]\s+(.+)$', source, re.MULTILINE): the bullet items
\* of the whole cell in order.
RECURSIVE AllBullets(_, _)
AllBullets(blocks, i) ==
  IF i > Len(blocks) THEN << >>
  ELSE blocks[i].items \o AllBullets(blocks, i + 1)

\* r'^#\s+.+\n\n(.+?)(?=\n\n|\Z)' under re.DOTALL: the greedy '.+' runs over
\* line ends up to the last blank line of the cell, so the group is the last
\* block.
DescriptionMatch(blocks) == blocks[Len(blocks)]

extract_notebook_metadata(cell) ==
  LET found == cell.blocks # << >>
      bullets == AllBullets(cell.blocks, 1)
      features == SubSeq(bullets, 1, Min(FeatureLimit, Len(bullets)))
  IN  [title |-> cell.title,
       description |-> IF found THEN DescriptionMatch(cell.blocks)
                       ELSE DefaultDescription,
       features |-> IF found /\ features # << >> THEN features
                    ELSE DefaultFeatures]

ProcessNotebook ==
  /\ output = NoValue
  /\ output' = extract_notebook_metadata(input)
  /\ UNCHANGED << mainVars, input >>

InitNotebook ==
  /\ MainInit
  /\ tree = {}
  /\ input \in Cells
  /\ output = NoValue

SpecNotebook == InitNotebook /\ [][ProcessNotebook]_vars

\* The first paragraph following the heading, if the cell has one.
RECURSIVE FirstParagraph(_, _)
FirstParagraph(blocks, i) ==
  IF i > Len(blocks) THEN DefaultDescription
  ELSE IF blocks[i].kind = "para" THEN blocks[i]
  ELSE FirstParagraph(blocks, i + 1)

\* C17: for a cell made of a heading, blank-line-separated paragraphs and
\* bullet items, the title is the heading text, the description is the
\* first paragraph following the heading and the features are the first up
\* to 3 bullet items.
C17_NotebookMetadata ==
  (output # NoValue /\ \E i \in 1..Len(input.blocks) : input.blocks[i].kind = "para") =>
    /\ output.title = input.title
    /\ output.description = FirstParagraph(input.blocks, 1)
    /\ LET bullets == AllBullets(input.blocks, 1)
       IN  bullets # << >> =>
             output.features = SubSeq(bullets, 1, Min(3, Len(bullets)))

(***************************************************************************)
(* generate_sitemap.  A URL path is a sequence of segments joined by '/';  *)
(* a segment is a sequence of pieces whose concatenation is its text, so   *)
(* that a substring test is a test on pieces.  The mapping is given by     *)
(* the output paths of its entries in iteration order.                     *)
(***************************************************************************)
MaxEntries == 3

UrlPaths ==
  { << << "src-local" >>, << "two", ".h", ".html" >> >>,
    << << "postProcess" >>, << "video", ".py", ".html" >> >>,
    << << "postProcess" >>, << "re", "index", ".py", ".html" >> >>,
    << << "Makefile", ".html" >> >>,
    << << "src-local", "-old" >>, << "a", ".c", ".html" >> >>,
    << << "postProcess" >>, << "src-local" >>, << "b", ".c", ".html" >> >> }

Mappings ==
  { m \in UNION { [1..n -> UrlPaths] : n \in 0..MaxEntries } :
      \A i, j \in 1..Len(m) : i # j => m[i] # m[j] }

\* 'index' in url_path
ContainsIndex(url) ==
  \E i \in 1..Len(url) : \E k \in 1..Len(url[i]) : url[i][k] = "index"

\* url_path.startswith('src-local/')
StartsWithSrcLocal_NoSlash(url) == url[1][1] = "src-local"

StartsWithSrcLocal(url) == Len(url) >= 2 /\ url[1] = << "src-local" >>

HomeEntry == [loc |-> << >>, changefreq |-> "weekly", priority |-> "1.0"]

UrlEntry(url) ==
  [loc |-> url, changefreq |-> "monthly",
   priority |-> IF ContainsIndex(url) \/ StartsWithSrcLocal(url)
                  THEN "0.8" ELSE "0.6"]

generate_sitemap(m) == << HomeEntry >> \o [i \in 1..Len(m) |-> UrlEntry(m[i])]

WriteSitemap ==
  /\ output = NoValue
  /\ output' = generate_sitemap(input)
  /\ UNCHANGED << mainVars, input >>

InitSitemap ==
  /\ MainInit
  /\ tree = {}
  /\ input \in Mappings
  /\ output = NoValue

SpecSitemap == InitSitemap /\ [][WriteSitemap]_vars

\* A page whose doc-root-relative URL contains 'index' or starts with
\* 'src-local/'.
ImportantPath(url) ==
  \/ \E i \in 1..Len(url) : "index" \in { url[i][k] : k \in 1..Len(url[i]) }
  \/ (Len(url) > 1 /\ url[1] = << "src-local" >>)

\* C18: the sitemap holds exactly one entry for the homepage, with priority
\* 1.0, and exactly one entry per mapping entry, with priority 0.8 for an
\* important path and 0.6 otherwise.
C18_SitemapEntries ==
  output # NoValue =>
    /\ Cardinality({ i \in 1..Len(output) : output[i].loc = << >> }) = 1
    /\ \A i \in 1..Len(output) :
         output[i].loc = << >> => output[i].priority = "1.0"
    /\ \A i \in 1..Len(input) :
         /\ Cardinality({ j \in 1..Len(output) : output[j].loc = input[i] }) = 1
         /\ \A j \in 1..Len(output) :
              output[j].loc = input[i] =>
                output[j].priority = IF ImportantPath(input[i]) THEN "0.8" ELSE "0.6"
    /\ Len(output) = Len(input) + 1

C18_Witness ==
  /\ Len(input) = 3
  /\ output # NoValue
  /\ \E i, j, k \in 1..3 :
       /\ StartsWithSrcLocal(input[i]) /\ output[i + 1].priority = "0.8"
       /\ input[j] = << << "src-local", "-old" >>, << "a", ".c", ".html" >> >>
       /\ output[j + 1].priority = "0.6"
       /\ ContainsIndex(input[k]) /\ ~StartsWithSrcLocal(input[k])
       /\ output[k + 1].priority = "0.8"

\* C19: if the script of the anchor-tagging tool is missing, the run stops as
\* a configuration error before any output is produced, instead of failing
\* each native source file and going on with the others.
C19_MissingToolScriptIsFatal ==
  (\E f \in FileIds : outcome[f] = "awk_missing") =>
    /\ validated = "fail"
    /\ written = {}
    /\ made = {}
    /\ generated_files = << >>

\* C20: a failed copy of the static assets is only logged: the run goes on,
\* the sources are enumerated and processed, and the indexes, robots.txt
\* and sitemap.xml are produced.
C20_AssetCopyFailureNotFatal ==
  (pc = "done" /\ endReason = "assets") =>
    /\ source_files = find_source_files(tree)
    /\ AllArtifacts \subseteq made

\* C21: whatever the indent levels of the lines of a tree block, including
\* jumps of several levels and an indented first line,
\* convert_directory_tree_to_html returns without raising.
C21_TreeNeverRaises ==
  output # NoValue => ~output.raised

\* C22: when the anchor-tagging tool exits non-zero for a native source
\* file, no later pass runs for the file and its output is not written
\* again, the file is not added to BuildMapping in that run, and the
\* remaining source files are still processed.
C22_AwkFailureStopsFileOnly ==
  \A f \in FileIds :
    outcome[f] = "awk_fail" =>
      /\ invoked[f] = {"prep", "pandoc", "awk"}
      /\ disk[f] = Rendered(run)
      /\ ~InMapping(f)
      /\ (pc # "files" => AllProcessed)

C22_Witness ==
  /\ pc = "done"
  /\ endReason = "complete"
  /\ \E i, j \in 1..Len(source_files) :
       /\ i < j
       /\ outcome[source_files[i]] = "awk_fail"
       /\ outcome[source_files[j]] = "ok"
       /\ InMapping(source_files[j])
       /\ disk[source_files[j]] = Complete(run)

\* File names that could yield the name of an index page.
IndexLikePaths ==
  [dirs : DirPool,
   name : { << "index" >>, << "index", ".html" >>, << "index", ".c" >>,
            << "index", ".py" >> }]

\* C23: within one run, once the per-file step of a source file has
\* finished, no later step of that run writes to the file's OutputPath: the
\* later iterations of the loop leave it alone, and the index pages, named
\* index.html, are the OutputPath of no accepted source file.
C23_FinishedOutputNotRewritten ==
  /\ [](\A p \in PathPool \cup IndexLikePaths :
          AcceptedPath(p) => OutputPath(p).name # << "index", ".html" >>)
  /\ [][\A f \in FileIds :
          (pc # "done" /\ reach[f] # "unreached") =>
            /\ disk'[f] = disk[f]
            /\ outcome'[f] = outcome[f]
            /\ invoked'[f] = invoked[f]]_vars

C23_Witness ==
  /\ pc = "done"
  /\ endReason = "complete"
  /\ Len(source_files) >= 2
  /\ FORCE_REBUILD
  /\ \A i \in 1..Len(source_files) : source_files[i] \in written

(***************************************************************************)
(* process_python_file.  The file is a sequence of lines, each given by    *)
(* its kind: "text" (non-blank, no triple quotes), "blank", "delim" (the   *)
(* triple quotes alone), "open_text" (triple quotes followed by text),     *)
(* "one_line" (a literal opened and closed on the line) and "text_close"   *)
(* (text followed by triple quotes).  An emitted line names the source     *)
(* line it comes from (0 for a line the function adds) and its form.       *)
(***************************************************************************)
MaxPyLines == 4

LineKinds == {"text", "blank", "delim", "open_text", "one_line", "text_close"}

PyFiles == UNION { [1..n -> LineKinds] : n \in 1..MaxPyLines }

\* The stripped line starts with one of the two triple-quote delimiters.
StartsWithQuotes(k) == k \in {"delim", "open_text", "one_line"}

Emitted(i, form) == [src |-> i, form |-> form]

\* The state of the loop before the first line.
PyStart == [next |-> 1, in_code_block |-> FALSE, code_block |-> << >>,
            in_docstring |-> FALSE, docstring_lines |-> << >>,
            processed_lines |-> << >>, returned |-> FALSE]

\* The fenced block emitted for code_block.
Fence(code_block) ==
  << Emitted(0, "fence_open") >>
    \o [n \in 1..Len(code_block) |-> Emitted(code_block[n], "code")]
    \o << Emitted(0, "fence_close") >>

\* clean_docstring: the collected lines, stripped, with leading and trailing
\* triple quotes removed.
CleanDocstring(lines, docstring_lines) ==
  [n \in 1..Len(docstring_lines) |->
     Emitted(docstring_lines[n],
             IF lines[docstring_lines[n]] = "blank" THEN "blank" ELSE "prose")]

\* The flag in_code_block after a line that opens a docstring.
CodeFlagAtDocstring_Kept(in_code_block) == in_code_block

CodeFlagAtDocstring(in_code_block) == FALSE

\* One iteration of the for loop, on line i of kind k.
PyStep(lines, st) ==
  LET i == st.next
      k == lines[i]
      nx == [st EXCEPT !.next = i + 1]
  IN
    IF StartsWithQuotes(k)
    THEN IF st.in_docstring
         THEN [nx EXCEPT
                 !.in_docstring = FALSE,
                 !.processed_lines =
                    IF st.docstring_lines # << >>
                      THEN st.processed_lines \o << Emitted(0, "blank") >>
                             \o CleanDocstring(lines, st.docstring_lines)
                             \o << Emitted(0, "blank") >>
                      ELSE st.processed_lines,
                 !.docstring_lines = << >>]
         ELSE IF st.in_code_block
           THEN [nx EXCEPT
                   !.in_docstring = TRUE,
                   !.processed_lines = st.processed_lines \o Fence(st.code_block),
                   !.code_block = << >>,
                   !.in_code_block = CodeFlagAtDocstring(st.in_code_block)]
           ELSE [nx EXCEPT !.in_docstring = TRUE]
    ELSE IF st.in_docstring
      THEN [nx EXCEPT !.docstring_lines = Append(st.docstring_lines, i)]
    ELSE IF ~st.in_code_block /\ k # "blank"
      THEN [nx EXCEPT !.in_code_block = TRUE,
                      !.code_block = Append(st.code_block, i)]
    ELSE IF st.in_code_block
      THEN [nx EXCEPT !.code_block = Append(st.code_block, i)]
    ELSE [nx EXCEPT !.processed_lines =
                       Append(st.processed_lines, Emitted(i, "blank"))]

\* The code after the loop: the open code block is fenced, the lines of an
\* open docstring are emitted as they are.
PyEnd(st) ==
  LET p1 == IF st.in_code_block
              THEN st.processed_lines \o Fence(st.code_block)
              ELSE st.processed_lines
      p2 == IF st.in_docstring
              THEN p1 \o << Emitted(0, "blank") >>
                      \o [n \in 1..Len(st.docstring_lines) |->
                            Emitted(st.docstring_lines[n], "raw")]
                      \o << Emitted(0, "blank") >>
              ELSE p1
  IN  [st EXCEPT !.processed_lines = p2, !.returned = TRUE]

ProcessPythonLine ==
  /\ ~output.returned
  /\ output.next <= Len(input)
  /\ output' = PyStep(input, output)
  /\ UNCHANGED << mainVars, input >>

ProcessPythonEnd ==
  /\ ~output.returned
  /\ output.next > Len(input)
  /\ output' = PyEnd(output)
  /\ UNCHANGED << mainVars, input >>

InitPython ==
  /\ MainInit
  /\ tree = {}
  /\ input \in PyFiles
  /\ output = PyStart

SpecPython == InitPython /\ [][ProcessPythonLine \/ ProcessPythonEnd]_vars

\* Python's reading of the file: is line i followed by the inside of a
\* triple-quoted literal.
RECURSIVE InsideLiteralAfter(_, _)
InsideLiteralAfter(lines, i) ==
  IF i = 0 THEN FALSE
  ELSE LET before == InsideLiteralAfter(lines, i - 1)
       IN  IF before THEN lines[i] \notin {"delim", "text_close"}
           ELSE lines[i] \in {"delim", "open_text"}

\* Files in which every delimiter opens or closes a literal that stands as a
\* statement of its own and every literal is closed.
WellFormedPy(lines) ==
  /\ \A i \in 1..Len(lines) :
       IF InsideLiteralAfter(lines, i - 1)
         THEN lines[i] \notin {"open_text", "one_line"}
         ELSE lines[i] # "text_close"
  /\ ~InsideLiteralAfter(lines, Len(lines))

\* Line i holds text of a literal.
LiteralText(lines, i) ==
  IF InsideLiteralAfter(lines, i - 1)
    THEN lines[i] \in {"text", "text_close"}
    ELSE lines[i] \in {"open_text", "one_line"}

\* Line i is a non-blank line outside every literal.
CodeLine(lines, i) == ~InsideLiteralAfter(lines, i - 1) /\ lines[i] = "text"

\* Position n of the output lies between a fence opening and its closing.
InsideFence(out, n) ==
  \E a \in 1..(n - 1) :
    /\ out[a].form = "fence_open"
    /\ \A b \in (a + 1)..(n - 1) : out[b].form # "fence_close"

\* C24: the text of every triple-quoted literal, including a literal opened
\* and closed on one line and text sharing a line with a delimiter, is
\* emitted as prose outside any code fence with the delimiters stripped,
\* and every other non-blank line is emitted inside a python code fence.
C24_DocstringsBecomeProse ==
  (output.returned /\ WellFormedPy(input)) =>
    LET out == output.processed_lines
    IN  \A i \in 1..Len(input) :
          /\ LiteralText(input, i) =>
               \E n \in 1..Len(out) :
                 out[n] = Emitted(i, "prose") /\ ~InsideFence(out, n)
          /\ CodeLine(input, i) =>
               \E n \in 1..Len(out) :
                 out[n] = Emitted(i, "code") /\ InsideFence(out, n)

(***************************************************************************)
(* process_c_file.  An outcome of the literate preprocessor is whether it  *)
(* could be started, its exit code and its output, a sequence of pieces    *)
(* whose concatenation is the text.                                        *)
(***************************************************************************)
MaxPieces == 3

Pieces == {"~~~literatec", "~~~c", "int x;", " ", "\n"}

Whitespace == {" ", "\n"}

ToolOutcomes ==
  [started : BOOLEAN, returncode : 0..2,
   content : UNION { [1..n -> Pieces] : n \in 0..MaxPieces }]

\* content.strip() is not empty.
StripNonEmpty(content) == \E i \in 1..Len(content) : content[i] \notin Whitespace

\* content.replace('~~~literatec', '~~~c')
ReplaceMarker(content) ==
  [i \in 1..Len(content) |->
     IF content[i] = "~~~literatec" THEN "~~~c" ELSE content[i]]

\* The Markdown made of the file's name and its text in a c fence.
markdown_content == [from |-> "fallback", content |-> << "~~~c", "int x;", "~~~c" >>]

\* A test that trusts the exit code alone.
ToolSucceeded_ExitCodeOnly(t) == t.started /\ t.returncode = 0

\* preproc_proc.returncode == 0 and content.strip(), reached only when Popen
\* and communicate raised nothing.
ToolSucceeded(t) == t.started /\ t.returncode = 0 /\ StripNonEmpty(t.content)

process_c_file(t) ==
  IF ToolSucceeded(t)
    THEN [from |-> "literate-c", content |-> ReplaceMarker(t.content)]
    ELSE markdown_content

ProcessCFile ==
  /\ output = NoValue
  /\ output' = process_c_file(input)
  /\ UNCHANGED << mainVars, input >>

InitCFile ==
  /\ MainInit
  /\ tree = {}
  /\ input \in ToolOutcomes
  /\ output = NoValue

SpecCFile == InitCFile /\ [][ProcessCFile]_vars

\* C25: process_c_file returns the preprocessor's output, its private fence
\* marker replaced by the standard one, exactly when the tool exits with
\* code 0 and its output is not empty; after a non-zero exit, an empty or
\* whitespace-only output or a failure to start it returns the fallback.
C25_LiterateOutputOrFallback ==
  output # NoValue =>
    IF /\ input.started
       /\ input.returncode = 0
       /\ \E i \in 1..Len(input.content) : input.content[i] \notin {" ", "\n"}
      THEN /\ output.from = "literate-c"
           /\ Len(output.content) = Len(input.content)
           /\ \A i \in 1..Len(input.content) :
                /\ output.content[i] # "~~~literatec"
                /\ input.content[i] # "~~~literatec" =>
                     output.content[i] = input.content[i]
                /\ input.content[i] = "~~~literatec" => output.content[i] = "~~~c"
      ELSE output = markdown_content

C25_Witness ==
  /\ output # NoValue
  /\ \/ /\ input.started /\ input.returncode = 0
        /\ input.content = << "~~~literatec", "int x;", "~~~c" >>
        /\ output.content = << "~~~c", "int x;", "~~~c" >>
        /\ output.from = "literate-c"
     \/ /\ input.started /\ input.returncode = 0
        /\ input.content = << " ", "\n" >>
        /\ output.from = "fallback"

\* prepare_pandoc_input: the preprocessor chosen for file f.
prepare_pandoc_input(f) ==
  LET c == Candidates[f]
  IN  IF c.suffix = ".md" THEN "process_markdown_file"
      ELSE IF c.suffix = ".py" THEN "process_python_file"
      ELSE IF c.suffix = ".sh" THEN "process_shell_file"
      ELSE IF c.suffix = ".ipynb" THEN "process_jupyter_notebook"
      ELSE IF c.name = "Makefile" THEN "process_shell_file"
      ELSE "process_c_file"

\* C26: a file named Makefile is treated as Shell by every kind-dependent
\* stage of its pipeline: it is preprocessed as a shell fenced block and
\* post-processed by the non-native passes, and the anchor-tagging tool is
\* never invoked for it.
C26_MakefileIsShellEverywhere ==
  \A f \in FileIds :
    Candidates[f].name = "Makefile" =>
      /\ prepare_pandoc_input(f) = "process_shell_file"
      /\ "awk" \notin invoked[f]
      /\ ("post" \in invoked[f] => NonNativeBranch(f))

(***************************************************************************)
(* insert_javascript_in_html.  The content of the file is a sequence of    *)
(* pieces; copy_js is the script the function inserts, whose text sets     *)
(* button.className = 'copy-button'; "<button class=\"copy-button\">" is   *)
(* markup holding the text class="copy-button".                            *)
(***************************************************************************)
MaxHtmlPieces == 3

MaxApplications == 2

copy_js == "copy_js"

HtmlPieces == {"<body>", "</body>", "<pre>", "<button class=\"copy-button\">"}

HtmlContents == UNION { [1..n -> HtmlPieces] : n \in 0..MaxHtmlPieces }

\* 'class="copy-button"' in content
HasCopyButtonClass(content) ==
  \E i \in 1..Len(content) : content[i] = "<button class=\"copy-button\">"

\* content.find(piece): the first position of piece, 0 if there is none.
Find(content, piece) ==
  IF \E i \in 1..Len(content) : content[i] = piece
    THEN CHOOSE i \in 1..Len(content) :
           content[i] = piece /\ \A j \in 1..(i - 1) : content[j] # piece
    ELSE 0

insert_javascript_in_html(content) ==
  IF HasCopyButtonClass(content) THEN content
  ELSE LET body_end_idx == Find(content, "</body>")
       IN  IF body_end_idx = 0
             THEN IF Find(content, "<body>") # 0
                    THEN Append(content, copy_js)
                    ELSE << "<!DOCTYPE html>", "<html>", "<head>", "<body>" >>
                           \o content \o << copy_js, "</body>", "</html>" >>
             ELSE SubSeq(content, 1, body_end_idx - 1) \o << copy_js >>
                    \o SubSeq(content, body_end_idx, Len(content))

InsertJavascript ==
  /\ output.applications < MaxApplications
  /\ output' = [content |-> insert_javascript_in_html(output.content),
                before |-> output.content,
                applications |-> output.applications + 1]
  /\ UNCHANGED << mainVars, input >>

InitInsertJs ==
  /\ MainInit
  /\ tree = {}
  /\ input \in HtmlContents
  /\ output = [content |-> input, before |-> input, applications |-> 0]

SpecInsertJs == InitInsertJs /\ [][InsertJavascript]_vars

\* Number of copies of the script in the content.
ScriptCount(content) ==
  Cardinality({ i \in 1..Len(content) : content[i] = copy_js })

\* C27: insert_javascript_in_html is idempotent: applied to a file into which
\* it has already inserted the script it leaves the file unchanged, so the
\* script occurs at most once in the file.
C27_InsertJavascriptIdempotent ==
  /\ output.applications >= 2 => output.content = output.before
  /\ ScriptCount(output.content) <= 1

\* The fence openings of the output, and for each the closing that follows.
FenceOpenings(out) == { a \in 1..Len(out) : out[a].form = "fence_open" }

\* C28: after every processed line at most one of in_code_block and
\* in_docstring is set, and in the output every opened python code fence is
\* closed before the next fence opens or the output ends and holds at least
\* one non-blank line.
C28_FlagsExclusiveFencesClosed ==
  /\ ~(output.in_code_block /\ output.in_docstring)
  /\ output.returned =>
       LET out == output.processed_lines
       IN  \A a \in FenceOpenings(out) :
             \E c \in (a + 1)..Len(out) :
               /\ out[c].form = "fence_close"
               /\ \A b \in (a + 1)..(c - 1) : out[b].form = "code"
               /\ \E b \in (a + 1)..(c - 1) : input[out[b].src] # "blank"

C28_Witness ==
  /\ output.returned
  /\ input = << "text", "delim", "delim", "text" >>
  /\ Cardinality(FenceOpenings(output.processed_lines)) = 2

\* C29: for a well-formed tree block the parent resolved for a file at level
\* L >= 1 is the token of the nearest preceding directory line at level
\* L-1, and after every line the ancestor stack has exactly level+1 entries
\* once a directory has been seen.
C29_WellFormedTreeParents ==
  (output # NoValue /\ WellNested(input)) =>
    /\ ~output.raised
    /\ \A n \in 1..Len(input) :
         /\ (~input[n].is_dir /\ input[n].indent_level >= 1) =>
              output.links[n].target =
                << AncestorAt(input, n, input[n].indent_level - 1), input[n].path >>
         /\ (\E m \in 1..n : input[m].is_dir) =>
              Len(TreeFold(input, n).path_stack) = input[n].indent_level + 1

C29_Witness ==
  /\ output # NoValue
  /\ input = << [indent_level |-> 0, path |-> "app", is_dir |-> TRUE],
                [indent_level |-> 1, path |-> "core", is_dir |-> TRUE],
                [indent_level |-> 2, path |-> "main.c", is_dir |-> FALSE] >>
  /\ output.links[3].target = << "core", "main.c" >>
  /\ output.path_stack = << "app", "core", "core" >>

(***************************************************************************)
(* postProcess/video.py: main() maps process_timestep over range(nGFS) on  *)
(* a pool of worker processes.  The pool hands every index to one idle     *)
(* worker, in order; a worker checks the snapshot, checks the image and    *)
(* saves the image in separate steps, so workers interleave between a      *)
(* check and the write that follows it.                                    *)
(***************************************************************************)
MaxGFS == 3

MaxCPUs == 2

\* The indices below 1000 for which 0.01 * ti * 1000 falls just under
\* 10 * ti in double arithmetic, so that int() yields 10 * ti - 1.
RoundedDown == {803, 811, 819}

CheckedIndices == 0..999

\* A name built from whole time units.
ImageNumber_WholeUnits(ti) == ti \div 100

\* int(t*1000) for t = 0.01 * ti, the number in the image's file name.
ImageNumber(ti) == 10 * ti - (IF ti \in RoundedDown THEN 1 ELSE 0)

VideoInputs ==
  UNION { [nGFS : {n}, CPUs : 1..MaxCPUs,
           snapshots : SUBSET (0..(n - 1)),
           present : SUBSET { ImageNumber(ti) : ti \in 0..(n - 1) }] :
          n \in 1..MaxGFS }

\* The pool and the Video folder when pool.map is called.
VideoStart(in) ==
  [workers |-> [w \in 1..in.CPUs |-> [pc |-> "idle", ti |-> 0]],
   handed |-> 0,
   handled |-> [ti \in 0..(in.nGFS - 1) |-> {}],
   images |-> in.present,
   writes |-> {}]

\* pool.map: the next index of range(nGFS) goes to an idle worker.
VideoTake(w) ==
  /\ output.workers[w].pc = "idle"
  /\ output.handed < input.nGFS
  /\ output' = [output EXCEPT
                  !.workers[w] = [pc |-> "check_snapshot", ti |-> output.handed],
                  !.handed = output.handed + 1,
                  !.handled[output.handed] = output.handled[output.handed] \cup {w}]
  /\ UNCHANGED << mainVars, input >>

\* process_timestep: if not os.path.exists(place): return
VideoCheckSnapshot(w) ==
  /\ output.workers[w].pc = "check_snapshot"
  /\ output' = [output EXCEPT
                  !.workers[w].pc =
                     IF output.workers[w].ti \in input.snapshots
                       THEN "check_image" ELSE "idle"]
  /\ UNCHANGED << mainVars, input >>

\* process_timestep: if os.path.exists(name): return
VideoCheckImage(w) ==
  /\ output.workers[w].pc = "check_image"
  /\ output' = [output EXCEPT
                  !.workers[w].pc =
                     IF ImageNumber(output.workers[w].ti) \in output.images
                       THEN "idle" ELSE "savefig"]
  /\ UNCHANGED << mainVars, input >>

\* process_timestep: plt.savefig(name, ...)
VideoSave(w) ==
  /\ output.workers[w].pc = "savefig"
  /\ LET ti == output.workers[w].ti
     IN  output' = [output EXCEPT
                      !.workers[w].pc = "idle",
                      !.images = output.images \cup {ImageNumber(ti)},
                      !.writes = output.writes \cup
                                   {[name |-> ImageNumber(ti), ti |-> ti, by |-> w]}]
  /\ UNCHANGED << mainVars, input >>

VideoNext ==
  \E w \in 1..input.CPUs :
    \/ VideoTake(w)
    \/ VideoCheckSnapshot(w)
    \/ VideoCheckImage(w)
    \/ VideoSave(w)

InitVideo ==
  /\ MainInit
  /\ tree = {}
  /\ input \in VideoInputs
  /\ output = VideoStart(input)

SpecVideo == InitVideo /\ [][VideoNext]_vars

\* pool.map has returned: every index was handed out and every worker is idle.
VideoDone ==
  /\ output.handed = input.nGFS
  /\ \A w \in 1..input.CPUs : output.workers[w].pc = "idle"

\* C30: for any number of workers and any interleaving, every index of
\* range(nGFS) is processed by exactly one worker, distinct indices have
\* distinct image paths, no image is written by two workers, and a timestep
\* whose snapshot is missing or whose image exists causes no write.
C30_OneWriterPerImage ==
  /\ \A ti \in 0..(input.nGFS - 1) :
       /\ Cardinality(output.handled[ti]) <= 1
       /\ VideoDone => Cardinality(output.handled[ti]) = 1
       /\ (ti \notin input.snapshots \/ ImageNumber(ti) \in input.present) =>
            \A e \in output.writes : e.ti # ti /\ e.name # ImageNumber(ti)
  /\ \A e1, e2 \in output.writes : e1.name = e2.name => e1 = e2
  /\ output.handed = 0 =>
       \A i \in CheckedIndices : ImageNumber(i) < ImageNumber(i + 1)

C30_Witness ==
  /\ VideoDone
  /\ input.nGFS = 3
  /\ input.CPUs = 2
  /\ input.snapshots = {0, 2}
  /\ input.present = {ImageNumber(2)}
  /\ output.writes = {[name |-> ImageNumber(0), ti |-> 0, by |-> 1]}
  /\ output.handled[1] = {2}

====
